---- MODULE Spec2Model ----
(***************************************************************************)
(* Entry/exit call correlation and event emission of the two OpenSSL       *)
(* probes of the repository:                                               *)
(*   ebpf/openssl/openssl_tls.bpf.c  ("tls":  ring buffer, 512-byte cap)   *)
(*   ebpf/bpf/openssl_hook.c         ("hook": perf array, 65536-byte cap)  *)
(* The two objects share no map, so one behaviour follows one of them; the *)
(* variable `loaded` says which.                                           *)
(*                                                                         *)
(* 64-bit registers are pairs <<hi, lo>> of 32-bit halves, each half kept  *)
(* as the signed reading of its bit pattern (TLC integers are 32 bits      *)
(* wide). A __u32 is kept the same way: a negative number stands for a     *)
(* value of 2^31 or more.                                                  *)
(***************************************************************************)
EXTENDS Integers, Sequences, FiniteSets, TLC

VARIABLES loaded,            \* which object file is attached
          max_entries,       \* max_entries its hash maps were created with
          ssl_fd_map,        \* tls:  SSL* -> fd
          pending_write,     \* tls:  pid_tgid -> ssl_io_args
          pending_read,      \* tls:  pid_tgid -> ssl_io_args
          tls_events,        \* tls:  records held by the ring buffer
          ssl_read_context,  \* hook: pid_tgid -> ssl_read_ctx
          events,            \* hook: records held by the perf buffer
          entered,           \* history: <<direction, thread>> -> arguments the
                             \* thread stored at its latest entry, until its exit
          last               \* history: the callback that ran last

vars == <<loaded, max_entries, ssl_fd_map, pending_write, pending_read, tls_events,
          ssl_read_context, events, entered, last>>

\* ------------------------------------------------------------ constants
MAX_TLS_DATA == 512
DIR_WRITE == 1
DIR_READ == 2
FLAG_TRUNCATED == 1
MAX_CAPTURE_SIZE == 65536
\* max_entries of ssl_fd_map, pending_write and pending_read, and of
\* ssl_read_context.
TLS_MAX_ENTRIES == 32768
HOOK_MAX_ENTRIES == 10240

\* ------------------------------------------------------------ bounds
\* Records the output channel holds before a reserve/output fails.
ChannelCap == 1
\* max_entries of every hash map in the runs that fill the maps.
MapCap == 1

\* ------------------------------------------------------------ input sets
\* pid_tgid of the probed threads, <<tgid, tid>>: two threads of one process.
Threads == {<<1, 1>>, <<1, 2>>}
\* The TLS sessions of the process: the SSL* and the buffer used with it.
Sessions == {[ssl_ptr |-> 1, buf_ptr |-> 16], [ssl_ptr |-> 2, buf_ptr |-> 32]}
Handles == {s.ssl_ptr : s \in Sessions}
Fds == {3, 5}
\* int num of SSL_read / SSL_write, as the calls probed by the hook object and
\* by the tls object pass it (the tls object never reads it).
Nums == {0, 5, MAX_CAPTURE_SIZE, MAX_CAPTURE_SIZE + 1}
TlsNums == {0, 5}
\* Return registers seen by the tls object: -1, 0, 5, 512, 513, 0xFFFFFFFF,
\* 2^32 + 5.
TlsRets == {<<-1, -1>>, <<0, 0>>, <<0, 5>>, <<0, MAX_TLS_DATA>>,
            <<0, MAX_TLS_DATA + 1>>, <<0, -1>>, <<1, 5>>}
\* Return registers seen by the hook object: -1, 0, 3, 5, 65536, 65537.
HookRets == {<<-1, -1>>, <<0, 0>>, <<0, 3>>, <<0, 5>>, <<0, MAX_CAPTURE_SIZE>>,
             <<0, MAX_CAPTURE_SIZE + 1>>}
\* What an SSL_write call probed by the hook object goes on to return: -1, or
\* the length it was given.
WriteRets(num) == {<<-1, -1>>, <<0, num>>}
\* The length the SSL_write_ex calls are made with.
ExNums == {5}

\* ------------------------------------------------------------ integers
\* (__s64)r <= 0
S64LeZero(r) == r[1] < 0 \/ (r[1] = 0 /\ r[2] = 0)
\* (__s64)r > c, for a constant 0 <= c < 2^31
S64GtConst(r, c) == r[1] > 0 \/ (r[1] = 0 /\ (r[2] < 0 \/ r[2] > c))
\* (__u32)r: the low half
CastU32(r) == r[2]
\* a > c for a __u32 a and a constant 0 <= c < 2^31
U32Gt(a, c) == a < 0 \/ a > c

\* ------------------------------------------------------------ maps
\* bpf_map_lookup_elem returns a pointer: <<>> is NULL, <<v>> points at v.
map_lookup_elem(m, k) == IF k \in DOMAIN m THEN <<m[k]>> ELSE <<>>
\* An update made with BPF_NOEXIST: an entry already there is kept.
map_update_elem_noexist(m, k, v) ==
    IF k \in DOMAIN m \/ Cardinality(DOMAIN m) >= max_entries THEN m
    ELSE [x \in DOMAIN m \cup {k} |-> IF x = k THEN v ELSE m[x]]
\* An update that takes no notice of max_entries.
map_update_elem_unbounded(m, k, v) ==
    [x \in DOMAIN m \cup {k} |-> IF x = k THEN v ELSE m[x]]
\* bpf_map_update_elem(BPF_ANY) on a BPF_MAP_TYPE_HASH: a new key in a map
\* that holds max_entries keys is refused (E2BIG; no caller looks at the
\* result), anything else is stored.
map_update_elem(m, k, v) ==
    IF k \notin DOMAIN m /\ Cardinality(DOMAIN m) >= max_entries THEN m
    ELSE [x \in DOMAIN m \cup {k} |-> IF x = k THEN v ELSE m[x]]
\* A delete that is never made.
map_delete_elem_forgotten(m, k) == m
map_delete_elem(m, k) == [x \in DOMAIN m \ {k} |-> m[x]]

EmptyMap == [x \in {} |-> 0]

\* History: h with v remembered under k.
Remember(h, k, v) == [x \in DOMAIN h \cup {k} |-> IF x = k THEN v ELSE h[x]]

\* ------------------------------------------------------------ helpers
get_tid(pid_tgid) == pid_tgid[2]
get_pid(pid_tgid) == pid_tgid[1]
\* tid_key keeping only the process half of the id.
tid_key_tgid_only(pid_tgid) == <<pid_tgid[1], 0>>
tid_key(pid_tgid) == pid_tgid

\* bpf_probe_read_user(dst, size, src): the bytes it leaves in dst, the size
\* bytes at src, or zeroes when the read fails.
probe_read_user(size, src, ok) ==
    IF ok THEN [kind |-> "user", src |-> src, len |-> size]
    ELSE [kind |-> "zero", src |-> 0, len |-> size]
\* Bytes of a reserved ring-buffer record nothing was copied into.
NotCopied == [kind |-> "none", src |-> 0, len |-> 0]

NoArgs == [ssl_ptr |-> 0, buf_ptr |-> 0]

\* found: the exit found a pending entry; args: that entry; room: the channel
\* could take a record; read_failed: bpf_probe_read_user ran and failed; out:
\* the records the callback handed to the channel. For an entry, args is what
\* it was called with and prev the entry of its key that was pending before it.
Idle == [op |-> "none", key |-> <<0, 0>>, ret |-> <<0, 0>>, num |-> 0,
         args |-> NoArgs, found |-> FALSE, room |-> TRUE,
         read_failed |-> FALSE, out |-> <<>>, prev |-> <<>>]

\* Everything but the size of the maps.
InitMaps ==
    /\ loaded \in {"tls", "hook"}
    /\ ssl_fd_map = EmptyMap
    /\ pending_write = EmptyMap
    /\ pending_read = EmptyMap
    /\ tls_events = 0
    /\ ssl_read_context = EmptyMap
    /\ events = 0
    /\ entered = EmptyMap
    /\ last = Idle

Init ==
    /\ InitMaps
    /\ max_entries = IF loaded = "tls" THEN TLS_MAX_ENTRIES ELSE HOOK_MAX_ENTRIES

\* ------------------------------------------------------------ tls object
\* emit_event without the clamp of copy_len to MAX_TLS_DATA.
emit_event_no_clamp(args, captured_len, direction, pid_tgid, reserve_ok, read_ok) ==
    IF S64LeZero(captured_len) \/ ~reserve_ok THEN <<>>
    ELSE LET total == CastU32(captured_len)
             fd == map_lookup_elem(ssl_fd_map, args.ssl_ptr)
         IN  << [pid |-> get_pid(pid_tgid),
                 tid |-> get_tid(pid_tgid),
                 ssl_ptr |-> args.ssl_ptr,
                 direction |-> direction,
                 total_len |-> total,
                 data_len |-> total,
                 flags |-> 0,
                 fd |-> IF fd # <<>> THEN fd[1] ELSE -1,
                 data |-> IF U32Gt(total, 0)
                          THEN probe_read_user(total, args.buf_ptr, read_ok)
                          ELSE NotCopied] >>

\* emit_event with the clamp test written >= instead of >.
emit_event_clamp_at_max(args, captured_len, direction, pid_tgid, reserve_ok, read_ok) ==
    IF S64LeZero(captured_len) \/ ~reserve_ok THEN <<>>
    ELSE LET total == CastU32(captured_len)
             trunc == U32Gt(total, MAX_TLS_DATA - 1)
             copy_len == IF trunc THEN MAX_TLS_DATA ELSE total
             fd == map_lookup_elem(ssl_fd_map, args.ssl_ptr)
         IN  << [pid |-> get_pid(pid_tgid),
                 tid |-> get_tid(pid_tgid),
                 ssl_ptr |-> args.ssl_ptr,
                 direction |-> direction,
                 total_len |-> total,
                 data_len |-> copy_len,
                 flags |-> IF trunc THEN FLAG_TRUNCATED ELSE 0,
                 fd |-> IF fd # <<>> THEN fd[1] ELSE -1,
                 data |-> IF copy_len > 0
                          THEN probe_read_user(copy_len, args.buf_ptr, read_ok)
                          ELSE NotCopied] >>

emit_event(args, captured_len, direction, pid_tgid, reserve_ok, read_ok) ==
    IF S64LeZero(captured_len) THEN <<>>
    ELSE LET total == CastU32(captured_len)
             trunc == U32Gt(total, MAX_TLS_DATA)
             copy_len == IF trunc THEN MAX_TLS_DATA ELSE total
             flags == IF trunc THEN FLAG_TRUNCATED ELSE 0
             fd == map_lookup_elem(ssl_fd_map, args.ssl_ptr)
         IN  IF ~reserve_ok THEN <<>>
             ELSE << [pid |-> get_pid(pid_tgid),
                      tid |-> get_tid(pid_tgid),
                      ssl_ptr |-> args.ssl_ptr,
                      direction |-> direction,
                      total_len |-> total,
                      data_len |-> copy_len,
                      flags |-> flags,
                      fd |-> IF fd # <<>> THEN fd[1] ELSE -1,
                      data |-> IF copy_len > 0
                               THEN probe_read_user(copy_len, args.buf_ptr, read_ok)
                               ELSE NotCopied] >>

\* The read outcome is an input only of a callback that reads.
ReadRan(out) == out # <<>> /\ out[1].data.kind # "none"

HookVarsUnchanged == UNCHANGED <<ssl_read_context, events>>
TlsVarsUnchanged ==
    UNCHANGED <<ssl_fd_map, pending_write, pending_read, tls_events>>

handle_ssl_set_fd(ssl, fd) ==
    /\ loaded = "tls"
    /\ ssl_fd_map' = map_update_elem(ssl_fd_map, ssl, fd)
    /\ last' = [Idle EXCEPT !.op = "handle_ssl_set_fd", !.num = fd,
                            !.args = [ssl_ptr |-> ssl, buf_ptr |-> 0]]
    /\ UNCHANGED <<loaded, max_entries, pending_write, pending_read, tls_events, entered>>
    /\ HookVarsUnchanged

handle_ssl_free(ssl) ==
    /\ loaded = "tls"
    /\ ssl_fd_map' = map_delete_elem(ssl_fd_map, ssl)
    /\ last' = [Idle EXCEPT !.op = "handle_ssl_free",
                            !.args = [ssl_ptr |-> ssl, buf_ptr |-> 0]]
    /\ UNCHANGED <<loaded, max_entries, pending_write, pending_read, tls_events, entered>>
    /\ HookVarsUnchanged

handle_ssl_write_entry(pid_tgid, ssl, buf, num) ==
    /\ loaded = "tls"
    /\ LET args == [ssl_ptr |-> ssl, buf_ptr |-> buf]
           key == tid_key(pid_tgid)
       IN  /\ pending_write' = map_update_elem(pending_write, key, args)
           /\ entered' = IF key \in DOMAIN pending_write'
                          THEN Remember(entered, <<DIR_WRITE, pid_tgid>>, args)
                          ELSE entered
    /\ last' = [Idle EXCEPT !.op = "handle_ssl_write_entry", !.key = pid_tgid,
                            !.num = num,
                            !.prev = map_lookup_elem(pending_write, pid_tgid),
                            !.args = [ssl_ptr |-> ssl, buf_ptr |-> buf]]
    /\ UNCHANGED <<loaded, max_entries, ssl_fd_map, pending_read, tls_events>>
    /\ HookVarsUnchanged

handle_ssl_write_exit(pid_tgid, ret, read_ok) ==
    /\ loaded = "tls"
    /\ LET key == tid_key(pid_tgid)
           args == map_lookup_elem(pending_write, key)
           room == tls_events < ChannelCap
       IN  IF args = <<>>
           THEN /\ read_ok
                /\ last' = [Idle EXCEPT !.op = "handle_ssl_write_exit",
                                        !.key = pid_tgid, !.ret = ret]
                /\ UNCHANGED <<pending_write, tls_events>>
           ELSE LET out == emit_event(args[1], ret, DIR_WRITE, pid_tgid, room, read_ok)
                IN  /\ read_ok \/ ReadRan(out)
                    /\ tls_events' = tls_events + Len(out)
                    /\ pending_write' = map_delete_elem(pending_write, key)
                    /\ last' = [Idle EXCEPT !.op = "handle_ssl_write_exit",
                                            !.key = pid_tgid, !.ret = ret,
                                            !.args = args[1], !.found = TRUE,
                                            !.room = room,
                                            !.read_failed = ~read_ok,
                                            !.out = out]
    /\ entered' = map_delete_elem(entered, <<DIR_WRITE, pid_tgid>>)
    /\ UNCHANGED <<loaded, max_entries, ssl_fd_map, pending_read>>
    /\ HookVarsUnchanged

\* handle_ssl_read_entry storing into pending_write, as a copy of the write
\* handler that kept the wrong table would.
handle_ssl_read_entry_wrong_table(pid_tgid, ssl, buf, num) ==
    /\ loaded = "tls"
    /\ LET args == [ssl_ptr |-> ssl, buf_ptr |-> buf]
           key == tid_key(pid_tgid)
       IN  /\ pending_write' = map_update_elem(pending_write, key, args)
           /\ entered' = IF key \in DOMAIN pending_write'
                          THEN Remember(entered, <<DIR_READ, pid_tgid>>, args)
                          ELSE entered
    /\ last' = [Idle EXCEPT !.op = "handle_ssl_read_entry", !.key = pid_tgid,
                            !.num = num,
                            !.prev = map_lookup_elem(pending_read, pid_tgid),
                            !.args = [ssl_ptr |-> ssl, buf_ptr |-> buf]]
    /\ UNCHANGED <<loaded, max_entries, ssl_fd_map, pending_read, tls_events>>
    /\ HookVarsUnchanged

handle_ssl_read_entry(pid_tgid, ssl, buf, num) ==
    /\ loaded = "tls"
    /\ LET args == [ssl_ptr |-> ssl, buf_ptr |-> buf]
           key == tid_key(pid_tgid)
       IN  /\ pending_read' = map_update_elem(pending_read, key, args)
           /\ entered' = IF key \in DOMAIN pending_read'
                          THEN Remember(entered, <<DIR_READ, pid_tgid>>, args)
                          ELSE entered
    /\ last' = [Idle EXCEPT !.op = "handle_ssl_read_entry", !.key = pid_tgid,
                            !.num = num,
                            !.prev = map_lookup_elem(pending_read, pid_tgid),
                            !.args = [ssl_ptr |-> ssl, buf_ptr |-> buf]]
    /\ UNCHANGED <<loaded, max_entries, ssl_fd_map, pending_write, tls_events>>
    /\ HookVarsUnchanged

\* handle_ssl_read_exit looking its entry up in pending_write, as a copy of
\* the write handler that kept the wrong table would.
handle_ssl_read_exit_wrong_table(pid_tgid, ret, read_ok) ==
    /\ loaded = "tls"
    /\ LET key == tid_key(pid_tgid)
           args == map_lookup_elem(pending_write, key)
           room == tls_events < ChannelCap
       IN  IF args = <<>>
           THEN /\ read_ok
                /\ last' = [Idle EXCEPT !.op = "handle_ssl_read_exit",
                                        !.key = pid_tgid, !.ret = ret]
                /\ UNCHANGED <<pending_read, tls_events>>
           ELSE LET out == emit_event(args[1], ret, DIR_READ, pid_tgid, room, read_ok)
                IN  /\ read_ok \/ ReadRan(out)
                    /\ tls_events' = tls_events + Len(out)
                    /\ pending_read' = map_delete_elem(pending_read, key)
                    /\ last' = [Idle EXCEPT !.op = "handle_ssl_read_exit",
                                            !.key = pid_tgid, !.ret = ret,
                                            !.args = args[1], !.found = TRUE,
                                            !.room = room,
                                            !.read_failed = ~read_ok,
                                            !.out = out]
    /\ entered' = map_delete_elem(entered, <<DIR_READ, pid_tgid>>)
    /\ UNCHANGED <<loaded, max_entries, ssl_fd_map, pending_write>>
    /\ HookVarsUnchanged

handle_ssl_read_exit(pid_tgid, ret, read_ok) ==
    /\ loaded = "tls"
    /\ LET key == tid_key(pid_tgid)
           args == map_lookup_elem(pending_read, key)
           room == tls_events < ChannelCap
       IN  IF args = <<>>
           THEN /\ read_ok
                /\ last' = [Idle EXCEPT !.op = "handle_ssl_read_exit",
                                        !.key = pid_tgid, !.ret = ret]
                /\ UNCHANGED <<pending_read, tls_events>>
           ELSE LET out == emit_event(args[1], ret, DIR_READ, pid_tgid, room, read_ok)
                IN  /\ read_ok \/ ReadRan(out)
                    /\ tls_events' = tls_events + Len(out)
                    /\ pending_read' = map_delete_elem(pending_read, key)
                    /\ last' = [Idle EXCEPT !.op = "handle_ssl_read_exit",
                                            !.key = pid_tgid, !.ret = ret,
                                            !.args = args[1], !.found = TRUE,
                                            !.room = room,
                                            !.read_failed = ~read_ok,
                                            !.out = out]
    /\ entered' = map_delete_elem(entered, <<DIR_READ, pid_tgid>>)
    /\ UNCHANGED <<loaded, max_entries, ssl_fd_map, pending_write>>
    /\ HookVarsUnchanged

\* The user-space reader takes one record off the ring buffer.
tls_events_consume ==
    /\ loaded = "tls"
    /\ tls_events > 0
    /\ tls_events' = tls_events - 1
    /\ last' = [Idle EXCEPT !.op = "tls_events_consume"]
    /\ UNCHANGED <<loaded, max_entries, ssl_fd_map, pending_write, pending_read, entered>>
    /\ HookVarsUnchanged

TlsNext ==
    \/ \E ssl \in Handles, fd \in Fds : handle_ssl_set_fd(ssl, fd)
    \/ \E ssl \in Handles : handle_ssl_free(ssl)
    \/ \E t \in Threads, s \in Sessions, num \in TlsNums :
          handle_ssl_write_entry(t, s.ssl_ptr, s.buf_ptr, num)
    \/ \E t \in Threads, ret \in TlsRets, ok \in BOOLEAN :
          handle_ssl_write_exit(t, ret, ok)
    \/ \E t \in Threads, s \in Sessions, num \in TlsNums :
          handle_ssl_read_entry(t, s.ssl_ptr, s.buf_ptr, num)
    \/ \E t \in Threads, ret \in TlsRets, ok \in BOOLEAN :
          handle_ssl_read_exit(t, ret, ok)
    \/ tls_events_consume

\* ------------------------------------------------------------ hook object
\* struct ssl_event as handed to bpf_perf_event_output.
ssl_event(pid_tgid, is_write, data_len, data) ==
    [pid |-> get_pid(pid_tgid), tid |-> get_tid(pid_tgid), fd |-> 0,
     is_write |-> is_write, data_len |-> data_len, data |-> data]

\* bpf_perf_event_output: the records that reach the perf buffer.
perf_event_output(event, room) == IF room THEN <<event>> ELSE <<>>

\* rc is the value the probed call goes on to return: the object attaches no
\* return probe to SSL_write, so the handler never sees it.
uprobe_ssl_write(pid_tgid, buf, num, read_ok, rc) ==
    /\ loaded = "hook"
    /\ LET room == events < ChannelCap
           skip == num <= 0 \/ num > MAX_CAPTURE_SIZE
           out == IF skip \/ ~read_ok THEN <<>>
                  ELSE perf_event_output(
                           ssl_event(pid_tgid, 1, num,
                                     probe_read_user(num, buf, TRUE)), room)
       IN  /\ read_ok \/ ~skip
           /\ events' = events + Len(out)
           /\ last' = [Idle EXCEPT !.op = "uprobe_ssl_write", !.key = pid_tgid,
                                   !.num = num, !.ret = rc,
                                   !.args = [ssl_ptr |-> 0, buf_ptr |-> buf],
                                   !.room = room, !.read_failed = ~read_ok,
                                   !.out = out]
    /\ UNCHANGED <<loaded, max_entries, ssl_read_context, entered>>
    /\ TlsVarsUnchanged

uprobe_ssl_read(pid_tgid, buf, num) ==
    /\ loaded = "hook"
    /\ IF num <= 0 \/ num > MAX_CAPTURE_SIZE
       THEN UNCHANGED <<ssl_read_context, entered>>
       ELSE LET ctx_data == [buf |-> buf, num |-> num]
            IN  /\ ssl_read_context' =
                       map_update_elem(ssl_read_context, pid_tgid, ctx_data)
                /\ entered' = IF pid_tgid \in DOMAIN ssl_read_context'
                               THEN Remember(entered, <<DIR_READ, pid_tgid>>,
                                             [ssl_ptr |-> 0, buf_ptr |-> buf])
                               ELSE entered
    /\ last' = [Idle EXCEPT !.op = "uprobe_ssl_read", !.key = pid_tgid,
                            !.num = num,
                            !.prev = map_lookup_elem(ssl_read_context, pid_tgid),
                            !.args = [ssl_ptr |-> 0, buf_ptr |-> buf]]
    /\ UNCHANGED <<loaded, max_entries, events>>
    /\ TlsVarsUnchanged

uretprobe_ssl_read(pid_tgid, ret_val, read_ok) ==
    /\ loaded = "hook"
    /\ LET ctx_data == map_lookup_elem(ssl_read_context, pid_tgid)
           room == events < ChannelCap
           base == [Idle EXCEPT !.op = "uretprobe_ssl_read", !.key = pid_tgid,
                                !.ret = ret_val]
       IN  IF S64LeZero(ret_val) \/ S64GtConst(ret_val, MAX_CAPTURE_SIZE)
           THEN /\ read_ok
                /\ ssl_read_context' = map_delete_elem(ssl_read_context, pid_tgid)
                /\ events' = events
                /\ last' = IF ctx_data = <<>> THEN base
                           ELSE [base EXCEPT !.found = TRUE,
                                             !.num = ctx_data[1].num,
                                             !.args = [ssl_ptr |-> 0,
                                                       buf_ptr |-> ctx_data[1].buf]]
           ELSE IF ctx_data = <<>>
           THEN /\ read_ok
                /\ UNCHANGED <<ssl_read_context, events>>
                /\ last' = base
           ELSE LET buf == ctx_data[1].buf
                    num == ctx_data[1].num
                    data_len == IF CastU32(ret_val) < num
                                THEN CastU32(ret_val) ELSE num
                    out == IF read_ok
                           THEN perf_event_output(
                                    ssl_event(pid_tgid, 0, data_len,
                                              probe_read_user(data_len, buf, TRUE)),
                                    room)
                           ELSE <<>>
                IN  /\ ssl_read_context' =
                           map_delete_elem(ssl_read_context, pid_tgid)
                    /\ events' = events + Len(out)
                    /\ last' = [base EXCEPT !.found = TRUE, !.num = num,
                                            !.args = [ssl_ptr |-> 0, buf_ptr |-> buf],
                                            !.room = room,
                                            !.read_failed = ~read_ok,
                                            !.out = out]
    /\ entered' = map_delete_elem(entered, <<DIR_READ, pid_tgid>>)
    /\ UNCHANGED <<loaded, max_entries>>
    /\ TlsVarsUnchanged

uprobe_ssl_write_ex(pid_tgid, buf, num, read_ok, rc) ==
    uprobe_ssl_write(pid_tgid, buf, num, read_ok, rc)

uretprobe_ssl_read_ex(pid_tgid, ret_val, read_ok) ==
    uretprobe_ssl_read(pid_tgid, ret_val, read_ok)

\* A thread enters SSL_read_ex. The object attaches a return probe to
\* SSL_read_ex and no entry probe: no handler runs and no map changes.
ssl_read_ex_entry(pid_tgid, buf, num) ==
    /\ loaded = "hook"
    /\ last' = [Idle EXCEPT !.op = "SSL_read_ex", !.key = pid_tgid,
                            !.num = num,
                            !.args = [ssl_ptr |-> 0, buf_ptr |-> buf]]
    /\ UNCHANGED <<loaded, max_entries, ssl_read_context, events, entered>>
    /\ TlsVarsUnchanged

\* The user-space reader takes one record off the perf buffer.
events_consume ==
    /\ loaded = "hook"
    /\ events > 0
    /\ events' = events - 1
    /\ last' = [Idle EXCEPT !.op = "events_consume"]
    /\ UNCHANGED <<loaded, max_entries, ssl_read_context, entered>>
    /\ TlsVarsUnchanged

HookNext ==
    \/ \E t \in Threads, s \in Sessions, num \in Nums, ok \in BOOLEAN :
          \E rc \in WriteRets(num) : uprobe_ssl_write(t, s.buf_ptr, num, ok, rc)
    \/ \E t \in Threads, s \in Sessions, num \in Nums :
          uprobe_ssl_read(t, s.buf_ptr, num)
    \/ \E t \in Threads, ret \in HookRets, ok \in BOOLEAN :
          uretprobe_ssl_read(t, ret, ok)
    \/ \E t \in Threads, s \in Sessions, num \in ExNums, ok \in BOOLEAN :
          \E rc \in WriteRets(num) : uprobe_ssl_write_ex(t, s.buf_ptr, num, ok, rc)
    \/ \E t \in Threads, ret \in HookRets, ok \in BOOLEAN :
          uretprobe_ssl_read_ex(t, ret, ok)
    \/ \E t \in Threads, s \in Sessions, num \in Nums :
          ssl_read_ex_entry(t, s.buf_ptr, num)
    \/ events_consume

Next == TlsNext \/ HookNext

Spec == Init /\ [][Next]_vars

\* ------------------------------------------------------------ full maps
\* The same objects loaded with hash maps of MapCap entries, probed by three
\* threads of two processes that use three sessions: the maps fill up.
CapThreads == Threads \cup {<<2, 3>>}
CapHandles == Handles \cup {3}
CapRets == {<<0, 0>>, <<0, 5>>}

CapInit ==
    /\ InitMaps
    /\ max_entries = MapCap

CapNext ==
    \/ \E ssl \in CapHandles, fd \in Fds : handle_ssl_set_fd(ssl, fd)
    \/ \E ssl \in CapHandles : handle_ssl_free(ssl)
    \/ \E t \in CapThreads, s \in Sessions :
          handle_ssl_write_entry(t, s.ssl_ptr, s.buf_ptr, 5)
    \/ \E t \in CapThreads, ret \in CapRets : handle_ssl_write_exit(t, ret, TRUE)
    \/ tls_events_consume
    \/ \E t \in CapThreads, s \in Sessions : uprobe_ssl_read(t, s.buf_ptr, 5)
    \/ \E t \in CapThreads, ret \in CapRets : uretprobe_ssl_read(t, ret, TRUE)
    \/ events_consume

CapSpec == CapInit /\ [][CapNext]_vars

\* The same with the program and the consumers running on for ever: some
\* callback always runs again, and a record in a channel is taken off it.
OrphanSpec ==
    /\ CapSpec
    /\ WF_vars(CapNext)
    /\ WF_vars(tls_events_consume)
    /\ WF_vars(events_consume)

\* ============================================================ properties
ExitOps == {"handle_ssl_write_exit", "handle_ssl_read_exit", "uretprobe_ssl_read"}
EntryOps == {"handle_ssl_write_entry", "handle_ssl_read_entry", "uprobe_ssl_read"}

\* maxCaptureSize of the attached object.
MaxCapture == IF loaded = "tls" THEN MAX_TLS_DATA ELSE MAX_CAPTURE_SIZE
\* The records the last callback handed to the output channel.
Emitted == {last.out[i] : i \in 1..Len(last.out)}
\* The len bytes found at address src.
BytesAt(src, len) == [kind |-> "user", src |-> src, len |-> len]
\* The return code is a positive number below 2^31, and which.
SmallPositive(ret) == ret[1] = 0 /\ ret[2] > 0

\* The Event a record stands for. struct ssl_event of the hook object has one
\* length and no flags: that length is its total and its captured length, and
\* it is never marked truncated.
CaptureLen(e) == e.data_len
Truncated(e) == IF loaded = "tls" THEN e.flags = FLAG_TRUNCATED ELSE FALSE
TotalExceeds(e, c) == IF loaded = "tls" THEN U32Gt(e.total_len, c) ELSE e.data_len > c

C2_OneExactEvent(out, len, buf) ==
    /\ Len(out) = 1
    /\ LET e == out[1]
       IN  /\ e.data_len = len
           /\ e.data = BytesAt(buf, len)
           /\ IF loaded = "tls"
              THEN e.direction = DIR_WRITE /\ e.flags = 0
              ELSE e.is_write = 1

\* C2 as stated: every outbound call with 0 < requestedLen <= maxCaptureSize
\* whose exit returns requestedLen yields exactly one Event, outbound, with
\* captureLen = requestedLen, not truncated, holding the bytes of the source
\* buffer. (For the tls object the call is an entry directly followed by its
\* exit on the same thread; the hook object's only outbound probe is the entry.)
C2_Original ==
    [][/\ (/\ loaded = "tls"
           /\ last.op = "handle_ssl_write_entry"
           /\ last'.op = "handle_ssl_write_exit"
           /\ last'.key = last.key
           /\ 0 < last.num /\ last.num <= MAX_TLS_DATA
           /\ last'.ret = <<0, last.num>>)
          => C2_OneExactEvent(last'.out, last.num, last.args.buf_ptr)
       /\ (/\ loaded = "hook"
           /\ last'.op = "uprobe_ssl_write"
           /\ 0 < last'.num /\ last'.num <= MAX_CAPTURE_SIZE
           /\ last'.ret = <<0, last'.num>>)
          => C2_OneExactEvent(last'.out, last'.num, last'.args.buf_ptr)
      ]_vars

\* C2 amended: the same, provided the memory read succeeds and the output
\* channel takes the record. The tls object never reads requestedLen, so its
\* part holds for every positive return code up to maxCaptureSize; an entry
\* of the tls object emits nothing, so the one Event is the only one.
C2_OneEventWhenDelivered ==
    /\ (/\ loaded = "tls"
        /\ last.op = "handle_ssl_write_exit"
        /\ last.found /\ last.room /\ ~last.read_failed
        /\ SmallPositive(last.ret) /\ last.ret[2] <= MAX_TLS_DATA)
       => C2_OneExactEvent(last.out, last.ret[2], last.args.buf_ptr)
    /\ (loaded = "tls" /\ last.op = "handle_ssl_write_entry") => last.out = <<>>
    /\ (/\ loaded = "hook"
        /\ last.op = "uprobe_ssl_write"
        /\ last.room /\ ~last.read_failed
        /\ 0 < last.num /\ last.num <= MAX_CAPTURE_SIZE
        /\ last.ret = <<0, last.num>>)
       => C2_OneExactEvent(last.out, last.num, last.args.buf_ptr)

\* An outbound call of exactly maxCaptureSize bytes was captured whole.
C2_Witness ==
    /\ loaded = "tls"
    /\ last.op = "handle_ssl_write_exit"
    /\ last.ret = <<0, MAX_TLS_DATA>>
    /\ last.found /\ last.room /\ ~last.read_failed
    /\ Len(last.out) = 1
    /\ last.out[1].data_len = MAX_TLS_DATA
\* The return code, a signed 64-bit number, exceeds c (0 <= c < 2^31).
RetExceeds(ret, c) == S64GtConst(ret, c)
\* min(ret, a) for a positive return code ret and 0 <= a < 2^31.
MinRet(ret, a) == IF ret[1] > 0 \/ ret[2] < 0 \/ ret[2] > a THEN a ELSE ret[2]

\* C3: every call with a matching pending entry whose return code exceeds
\* maxCaptureSize yields an Event (it is not dropped) with captureLen =
\* maxCaptureSize and the truncation flag set. Stated of the return codes
\* that fit the int the probed functions return, and of the exits whose
\* memory read did not fail and whose channel had room.
C3_OversizeTruncated ==
    (/\ last.op \in ExitOps
     /\ last.found /\ last.room /\ ~last.read_failed
     /\ SmallPositive(last.ret) /\ RetExceeds(last.ret, MaxCapture))
    => /\ Len(last.out) = 1
       /\ last.out[1].data_len = MaxCapture
       /\ loaded = "tls" => last.out[1].flags = FLAG_TRUNCATED

\* C4: the Event of an inbound call with a matching pending entry and a
\* positive return code has captureLen = min(returnCode, requestedLen,
\* maxCaptureSize), requestedLen being the length argument at the call's
\* entry. Stated of the return codes that fit a positive int. (For the tls
\* object, which stores no length, the call is an entry directly followed by
\* its exit on the same thread.)
C4_InboundCaptureLen ==
    [][/\ (/\ loaded = "tls"
           /\ last.op = "handle_ssl_read_entry"
           /\ last'.op = "handle_ssl_read_exit"
           /\ last'.key = last.key
           /\ last.num > 0
           /\ ~last'.read_failed
           /\ SmallPositive(last'.ret))
          => \A i \in 1..Len(last'.out) :
                last'.out[i].data_len =
                    MinRet(last'.ret, MinRet(<<0, last.num>>, MAX_TLS_DATA))
       /\ (/\ loaded = "hook"
           /\ last'.op = "uretprobe_ssl_read"
           /\ last'.found
           /\ SmallPositive(last'.ret))
          => \A i \in 1..Len(last'.out) :
                last'.out[i].data_len =
                    MinRet(last'.ret, MinRet(<<0, last'.num>>, MAX_CAPTURE_SIZE))
      ]_vars

\* C5: a call whose exit carries a return code <= 0 emits no Event, in either
\* direction, at its entry or at its exit.
C5_NoEventOnFailure ==
    /\ (last.op \in ExitOps /\ S64LeZero(last.ret)) => last.out = <<>>
    /\ last.op \in EntryOps => last.out = <<>>
    /\ (last.op = "uprobe_ssl_write" /\ S64LeZero(last.ret)) => last.out = <<>>
\* HandleRegistry.Lookup: the bound descriptor, or the unknown sentinel.
Lookup(registry, handle) ==
    IF handle \in DOMAIN registry THEN registry[handle] ELSE -1
\* The direction an exit callback serves, and its pending table.
DirOf(op) == IF op = "handle_ssl_write_exit" THEN DIR_WRITE ELSE DIR_READ
PendingOf(op, pw, pr, ctx) ==
    IF op = "handle_ssl_write_exit" THEN pw
    ELSE IF op = "handle_ssl_read_exit" THEN pr ELSE ctx
\* The handle registry and the pending entries of every thread but `key` are
\* the same before and after the step.
OthersUntouched(key) ==
    /\ ssl_fd_map' = ssl_fd_map
    /\ \A t \in Threads \ {key} :
          /\ map_lookup_elem(pending_write', t) = map_lookup_elem(pending_write, t)
          /\ map_lookup_elem(pending_read', t) = map_lookup_elem(pending_read, t)
          /\ map_lookup_elem(ssl_read_context', t) =
                 map_lookup_elem(ssl_read_context, t)

\* C6: when the memory reader fails on the pending call's buffer, no Event is
\* emitted for the call, and the pending entries of the other threads and the
\* handle registry stay as they were. Stated of the return codes that fit a
\* positive int.
C6_ReadFailureSkips ==
    [][(last'.read_failed /\ SmallPositive(last'.ret))
       => (last'.out = <<>> /\ OthersUntouched(last'.key))]_vars

\* C7: an exit that finds no pending entry of its thread and direction emits
\* nothing, whatever the return code, and changes no pending entry and no
\* binding of the registry.
C7_UnmatchedExitNoEffect ==
    [][(/\ last'.op \in ExitOps
        /\ <<DirOf(last'.op), last'.key>> \notin DOMAIN entered)
       => /\ last'.out = <<>>
          /\ UNCHANGED <<ssl_fd_map, pending_write, pending_read,
                         ssl_read_context, tls_events, events>>]_vars

\* An exit with a positive return code found no entry of its own thread while
\* another thread had one pending and a handle was bound.
C7_Witness ==
    /\ last.op = "handle_ssl_read_exit"
    /\ ~last.found
    /\ last.ret = <<0, 5>>
    /\ pending_read # EmptyMap
    /\ ssl_fd_map # EmptyMap

\* C8: every emitted Event carries the descriptor Lookup gives for the call's
\* handle at the exit: the latest bound descriptor, or -1 when the handle is
\* not bound. The hook object binds no handle at all.
C8_DescriptorFromRegistry ==
    last.op \in ExitOps =>
        \A e \in Emitted :
            e.fd = IF loaded = "tls" THEN Lookup(ssl_fd_map, e.ssl_ptr) ELSE -1

\* C9: an emitted Event carries the ids of the thread whose callback produced
\* it, and the Event of an exit carries the handle and the buffer address the
\* same thread stored at its own latest entry, whatever other threads did in
\* between.
C9_NoCrossContamination ==
    [][\A i \in 1..Len(last'.out) :
          LET e == last'.out[i]
              k == <<DirOf(last'.op), last'.key>>
          IN  /\ e.pid = last'.key[1]
              /\ e.tid = last'.key[2]
              /\ last'.op \in ExitOps =>
                    /\ k \in DOMAIN entered
                    /\ last'.args = entered[k]
                    /\ loaded = "tls" => e.ssl_ptr = entered[k].ssl_ptr
                    /\ e.data.kind = "user" => e.data.src = entered[k].buf_ptr
      ]_vars

\* A thread's exit emitted an Event while another thread held a pending entry
\* of the same direction for another session.
C9_Witness ==
    /\ last.op \in ExitOps
    /\ last.out # <<>>
    /\ last.out[1].data.kind = "user"
    /\ \E t \in Threads \ {last.key} :
          /\ <<DirOf(last.op), t>> \in DOMAIN entered
          /\ entered[<<DirOf(last.op), t>>].buf_ptr # last.args.buf_ptr

\* C10: after an exit, on every path, the pending table of its direction has
\* no entry for its thread; a second exit of the same thread and direction
\* right after it finds none and emits nothing.
C10_ConsumedOnce ==
    [][/\ last'.op \in ExitOps =>
             last'.key \notin DOMAIN PendingOf(last'.op, pending_write',
                                               pending_read', ssl_read_context')
       /\ (last.op \in ExitOps /\ last'.op = last.op /\ last'.key = last.key)
             => (~last'.found /\ last'.out = <<>>)
      ]_vars

\* An exit whose memory read failed had found its entry.
C10_Witness ==
    /\ last.op = "uretprobe_ssl_read"
    /\ last.found
    /\ last.read_failed

\* requestedLen is not positive or exceeds the sanity ceiling (the one ceiling
\* the source has is MAX_CAPTURE_SIZE of the hook object).
InvalidLen(num) == num <= 0 \/ num > MAX_CAPTURE_SIZE
\* The exit callback of the call an entry callback opens.
ExitOf(op) ==
    IF op = "handle_ssl_write_entry" THEN "handle_ssl_write_exit"
    ELSE IF op = "handle_ssl_read_entry" THEN "handle_ssl_read_exit"
    ELSE "uretprobe_ssl_read"

\* C11: an entry whose requestedLen is <= 0 or above the sanity ceiling stores
\* no pending entry (the tables stay as they were), and the exit of that call
\* on the same thread finds no matching entry and emits no Event, also when
\* an earlier entry of the thread is still pending.
C11_InvalidEntryNotTracked ==
    [][/\ (last'.op \in EntryOps /\ InvalidLen(last'.num))
             => UNCHANGED <<pending_write, pending_read, ssl_read_context>>
       /\ (/\ last.op \in EntryOps
           /\ InvalidLen(last.num)
           /\ last'.op = ExitOf(last.op)
           /\ last'.key = last.key)
             => (~last'.found /\ last'.out = <<>>)
      ]_vars

\* The drop counter the consumer can read. Neither object declares a variable
\* or a map that counts records: a failed bpf_ringbuf_reserve returns at once,
\* and the result of bpf_perf_event_output is not looked at.
drop_counter == 0

\* The callback recorded in l built a record (or was about to fill one) that
\* the output channel had no room for.
Dropped(l) ==
    /\ ~l.room
    /\ ~l.read_failed
    /\ \/ l.op = "uprobe_ssl_write" /\ ~InvalidLen(l.num) /\ l.ret = <<0, l.num>>
       \/ /\ l.op \in {"handle_ssl_write_exit", "handle_ssl_read_exit"}
          /\ l.found /\ ~S64LeZero(l.ret)
       \/ /\ l.op = "uretprobe_ssl_read"
          /\ l.found /\ ~S64LeZero(l.ret)
          /\ ~S64GtConst(l.ret, MAX_CAPTURE_SIZE)

\* C12: when the output channel cannot take an Event the callback still
\* completes (an exit consumes its pending entry), nothing is enqueued, and
\* the drop counter goes up by exactly one.
C12_DropsCounted ==
    [][Dropped(last') =>
          /\ last'.out = <<>>
          /\ UNCHANGED <<tls_events, events>>
          /\ last'.op \in ExitOps =>
                last'.key \notin DOMAIN PendingOf(last'.op, pending_write',
                                                  pending_read', ssl_read_context')
          /\ drop_counter' = drop_counter + 1
      ]_vars

\* C13: SSL_read_ex is correlated like SSL_read: an entry into SSL_read_ex
\* with a valid length, followed by its exit on the same thread with a positive
\* return code, finds the entry stored for it and yields the Event SSL_read
\* would: captureLen = min(returnCode, requestedLen) bytes of the buffer given
\* at the entry. Stated of the exits whose channel had room.
C13_ExAliases ==
    [][(/\ last.op = "SSL_read_ex"
        /\ ~InvalidLen(last.num)
        /\ last'.op = "uretprobe_ssl_read"
        /\ last'.key = last.key
        /\ SmallPositive(last'.ret)
        /\ ~S64GtConst(last'.ret, MAX_CAPTURE_SIZE)
        /\ ~last'.read_failed
        /\ events < ChannelCap)
       => /\ last'.found
          /\ Len(last'.out) = 1
          /\ last'.out[1].is_write = 0
          /\ last'.out[1].data_len = MinRet(last'.ret, last.num)
          /\ last'.out[1].data = BytesAt(last.args.buf_ptr, last'.out[1].data_len)
          /\ last'.key \notin DOMAIN ssl_read_context'
      ]_vars

\* The handle and the descriptor of the Bind or Unbind recorded in l.
BoundHandle(l) == l.args.ssl_ptr
BoundFd(l) == l.num
RegistryOps == {"handle_ssl_set_fd", "handle_ssl_free"}
\* Lookup gives the same for every handle but h before and after the step.
OtherHandlesSame(h) ==
    \A g \in (DOMAIN ssl_fd_map \cup DOMAIN ssl_fd_map') \ {h} :
        Lookup(ssl_fd_map', g) = Lookup(ssl_fd_map, g)

\* C14: the registry is a map with last-bind-wins. After Bind(h, d), Lookup(h)
\* is d; after Unbind(h) it is -1; neither changes Lookup of another handle;
\* Unbind of an absent handle and a second Bind(h, d) right after the first
\* change nothing; and no other callback changes the registry, so that
\* Lookup(h) is always what the latest Bind or Unbind of h left.
C14_LastBindWins ==
    [][/\ last'.op = "handle_ssl_set_fd" =>
             /\ Lookup(ssl_fd_map', BoundHandle(last')) = BoundFd(last')
             /\ OtherHandlesSame(BoundHandle(last'))
       /\ last'.op = "handle_ssl_free" =>
             /\ Lookup(ssl_fd_map', BoundHandle(last')) = -1
             /\ OtherHandlesSame(BoundHandle(last'))
             /\ BoundHandle(last') \notin DOMAIN ssl_fd_map =>
                   ssl_fd_map' = ssl_fd_map
       /\ (/\ last.op = "handle_ssl_set_fd"
           /\ last'.op = "handle_ssl_set_fd"
           /\ BoundHandle(last') = BoundHandle(last)
           /\ BoundFd(last') = BoundFd(last)) => ssl_fd_map' = ssl_fd_map
       /\ last'.op \notin RegistryOps => ssl_fd_map' = ssl_fd_map
      ]_vars

\* C15: the registry never holds more than max_entries handles, and a Bind of
\* a handle that is not bound, made when the registry is full, puts the handle
\* in (Lookup gives its descriptor) at the cost of an entry bound earlier.
C15_EvictOnOverflow ==
    [][/\ Cardinality(DOMAIN ssl_fd_map') <= max_entries
       /\ (/\ last'.op = "handle_ssl_set_fd"
           /\ BoundHandle(last') \notin DOMAIN ssl_fd_map
           /\ Cardinality(DOMAIN ssl_fd_map) = max_entries)
          => /\ Lookup(ssl_fd_map', BoundHandle(last')) = BoundFd(last')
             /\ \E g \in DOMAIN ssl_fd_map : g \notin DOMAIN ssl_fd_map'
      ]_vars

\* The callbacks that store into or take from each pending table.
WriteOps == {"handle_ssl_write_entry", "handle_ssl_write_exit"}
ReadOps == {"handle_ssl_read_entry", "handle_ssl_read_exit"}
CtxOps == {"uprobe_ssl_read", "uretprobe_ssl_read"}
\* The callback that ran last was one of ops on thread t.
Acted(ops, t) == last.key = t /\ last.op \in ops

\* C16: a pending entry of a thread that makes no further entry and no exit
\* in that direction is eventually removed from its table: whenever a thread
\* has an entry pending, later either the entry is gone or the thread has run
\* an entry or exit callback of that direction again.
C16_OrphanReclaimed ==
    \A t \in CapThreads :
        /\ (t \in DOMAIN pending_write /\ ~Acted(WriteOps, t))
              ~> (t \notin DOMAIN pending_write \/ Acted(WriteOps, t))
        /\ (t \in DOMAIN pending_read /\ ~Acted(ReadOps, t))
              ~> (t \notin DOMAIN pending_read \/ Acted(ReadOps, t))
        /\ (t \in DOMAIN ssl_read_context /\ ~Acted(CtxOps, t))
              ~> (t \notin DOMAIN ssl_read_context \/ Acted(CtxOps, t))

\* The pending table an entry callback stores into, and the value it stores.
EntryTable(op, pw, pr, ctx) ==
    IF op = "handle_ssl_write_entry" THEN pw
    ELSE IF op = "handle_ssl_read_entry" THEN pr ELSE ctx
StoredAs(l) ==
    IF l.op = "uprobe_ssl_read" THEN [buf |-> l.args.buf_ptr, num |-> l.num]
    ELSE l.args
\* An entry callback that stores: every one of the tls object, and those of
\* the hook object whose length passes its check.
StoringEntry(l) ==
    l.op \in EntryOps /\ (l.op = "uprobe_ssl_read" => ~InvalidLen(l.num))

\* C17: no pending table ever holds more than max_entries entries. A storing
\* entry of a thread that has an entry overwrites it, also in a full table; one
\* of a thread that has none is stored when the table has room and refused
\* (the table stays as it was) when it is full, and the exit that directly
\* follows a refused entry on the same thread emits nothing; no entry callback
\* changes the entry of another thread.
C17_PendingBounded ==
    [][/\ Cardinality(DOMAIN pending_write') <= max_entries
       /\ Cardinality(DOMAIN pending_read') <= max_entries
       /\ Cardinality(DOMAIN ssl_read_context') <= max_entries
       /\ StoringEntry(last') =>
             LET old == EntryTable(last'.op, pending_write, pending_read,
                                   ssl_read_context)
                 new == EntryTable(last'.op, pending_write', pending_read',
                                   ssl_read_context')
                 k == last'.key
             IN  /\ k \in DOMAIN old => map_lookup_elem(new, k) = <<StoredAs(last')>>
                 /\ (k \notin DOMAIN old /\ Cardinality(DOMAIN old) < max_entries)
                       => map_lookup_elem(new, k) = <<StoredAs(last')>>
                 /\ (k \notin DOMAIN old /\ Cardinality(DOMAIN old) >= max_entries)
                       => new = old
                 /\ \A j \in (DOMAIN old \cup DOMAIN new) \ {k} :
                       map_lookup_elem(new, j) = map_lookup_elem(old, j)
       /\ (/\ StoringEntry(last)
           /\ last.key \notin DOMAIN EntryTable(last.op, pending_write,
                                                pending_read, ssl_read_context)
           /\ last'.op = ExitOf(last.op)
           /\ last'.key = last.key)
             => (~last'.found /\ last'.out = <<>>)
      ]_vars

\* An entry was refused by a full table that holds another thread's entry.
C17_Witness ==
    /\ last.op = "handle_ssl_write_entry"
    /\ last.key \notin DOMAIN pending_write
    /\ Cardinality(DOMAIN pending_write) = max_entries
    /\ max_entries > 0

\* The step leaves the entry of every thread alone, but for the thread whose
\* entry or exit callback (one of ops) the step is.
OthersKept(old, new, ops) ==
    \/ new = old
    \/ /\ last'.op \in ops
       /\ \A t \in DOMAIN old \ {last'.key} : map_lookup_elem(new, t) = <<old[t]>>

\* C18: StoreEntry is last-write-wins per (direction, thread). A storing entry
\* made while an entry of its thread is pending leaves the second entry alone
\* under the key; no callback of another thread or direction changes it; and
\* the exit that follows on the thread finds the second entry, builds its
\* Event from the handle and the buffer address of the second entry, and
\* leaves no entry for the key.
C18_LastWriteWins ==
    [][/\ (StoringEntry(last') /\ last'.prev # <<>>) =>
             map_lookup_elem(EntryTable(last'.op, pending_write', pending_read',
                                        ssl_read_context'), last'.key)
                 = <<StoredAs(last')>>
       /\ OthersKept(pending_write, pending_write', WriteOps)
       /\ OthersKept(pending_read, pending_read', ReadOps)
       /\ OthersKept(ssl_read_context, ssl_read_context', CtxOps)
       /\ (/\ StoringEntry(last)
           /\ last.prev # <<>>
           /\ last'.op = ExitOf(last.op)
           /\ last'.key = last.key)
          => /\ last'.found
             /\ last'.args = last.args
             /\ \A i \in 1..Len(last'.out) :
                   /\ loaded = "tls" => last'.out[i].ssl_ptr = last.args.ssl_ptr
                   /\ last'.out[i].data.kind = "user" =>
                          last'.out[i].data.src = last.args.buf_ptr
             /\ last'.key \notin DOMAIN PendingOf(last'.op, pending_write',
                                                  pending_read', ssl_read_context')
      ]_vars

\* A second entry replaced a pending entry of its thread made for another
\* session, and the table holds the second.
C18_Witness ==
    /\ last.op = "handle_ssl_read_entry"
    /\ last.prev # <<>>
    /\ last.prev[1] # last.args
    /\ map_lookup_elem(pending_read, last.key) = <<last.args>>

\* The direction a callback serves.
Outbound(op) == op \in WriteOps \/ op = "uprobe_ssl_write"
Inbound(op) == op \in ReadOps \/ op \in CtxOps \/ op = "SSL_read_ex"

\* C19: the outbound and the inbound pending tables are independent. An
\* outbound callback leaves the inbound tables as they are and an inbound
\* callback the outbound table; an exit takes its arguments from the entry its
\* thread made in the exit's own direction; and every emitted Event carries
\* the direction of the callback that produced it.
C19_DirectionsIndependent ==
    [][/\ Outbound(last'.op) => UNCHANGED <<pending_read, ssl_read_context>>
       /\ Inbound(last'.op) => UNCHANGED pending_write
       /\ (last'.op \in ExitOps /\ last'.found) =>
             /\ <<DirOf(last'.op), last'.key>> \in DOMAIN entered
             /\ last'.args = entered[<<DirOf(last'.op), last'.key>>]
       /\ \A i \in 1..Len(last'.out) :
             IF loaded = "tls"
             THEN last'.out[i].direction =
                      (IF Outbound(last'.op) THEN DIR_WRITE ELSE DIR_READ)
             ELSE last'.out[i].is_write = (IF Outbound(last'.op) THEN 1 ELSE 0)
      ]_vars

\* A thread's outbound exit emitted an Event while the same thread held an
\* inbound entry made for another session, which is still pending.
C19_Witness ==
    /\ last.op = "handle_ssl_write_exit"
    /\ last.out # <<>>
    /\ last.out[1].direction = DIR_WRITE
    /\ last.key \in DOMAIN pending_read
    /\ pending_read[last.key] # last.args

\* The return code at the width of the int the probed functions return: the
\* low half of the return register, read as a signed 32-bit number.
IntRet(ret) == ret[2]

\* C20: the skip on a non-positive return is decided at the width of the int
\* the probed function returns. An exit whose return register holds a negative
\* int in its low 32 bits emits no Event whatever its upper 32 bits hold, and
\* every emitted Event of an exit has totalLen equal to the positive int
\* returned. Stated of the exits whose memory read did not fail.
C20_ReturnAtIntWidth ==
    (last.op \in ExitOps /\ ~last.read_failed) =>
        /\ IntRet(last.ret) < 0 => last.out = <<>>
        /\ \A e \in Emitted :
              /\ IntRet(last.ret) > 0
              /\ loaded = "tls" => e.total_len = IntRet(last.ret)
====
